---- MODULE Spec2Model ----
(***************************************************************************)
(* Model of lib/ansible/module_utils/eos_local.py: the process-wide device  *)
(* connection, the two transport adapters (Cli over an interactive shell,  *)
(* Eapi over JSON-RPC) and their get_config / run_commands / load_config / *)
(* configure operations, run against a model of the switch.                *)
(*                                                                         *)
(* A Python string is a sequence of text fragments (TLA+ strings); a list  *)
(* is a sequence of such strings.  Each public operation is one action     *)
(* that runs the whole method body, threading a "world" record (device,    *)
(* commands sent, requests issued) through the statements in source order. *)
(* A Python exception (NameError, KeyError, SystemExit from fail_json ...)  *)
(* ends the call with status "fail" and the exception's kind in err.       *)
(***************************************************************************)
EXTENDS Integers, Sequences, FiniteSets, TLC

\* ---------------------------------------------------------------- bounds
MaxCmds == 3      \* longest command list handed to run_commands
MaxCfg == 2       \* longest command list handed to load_config / configure
MaxTime == 2      \* int(time.time()) ranges over 1..MaxTime
MaxFetch == 2     \* device round-trips for one running-config key that are counted
MaxLines == 3     \* longest command list handed to send_config

\* ---------------------------------------------------------------- strings
Whitespace == {" ", "\n"}

RECURSIVE lstrip(_)
lstrip(s) == IF s # <<>> /\ Head(s) \in Whitespace THEN lstrip(Tail(s)) ELSE s

RECURSIVE rstrip(_)
rstrip(s) ==
  IF s # <<>> /\ s[Len(s)] \in Whitespace THEN rstrip(SubSeq(s, 1, Len(s) - 1)) ELSE s

\* str.strip()
strip(s) == rstrip(lstrip(s))

\* str.endswith / str.startswith
endswith(s, suffix) ==
  Len(s) >= Len(suffix) /\ SubSeq(s, Len(s) - Len(suffix) + 1, Len(s)) = suffix

startswith(s, prefix) == Len(s) >= Len(prefix) /\ SubSeq(s, 1, Len(prefix)) = prefix

JsonSuffix == <<"|", " ", "j", "s", "o", "n">>

is_json(x) == endswith(x, JsonSuffix)

is_text(x) == ~endswith(x, JsonSuffix)

\* The commands argument of a call: a list of strings, or one bare string.
List(l) == [kind |-> "list", val |-> l]

Str(s) == [kind |-> "str", val |-> s]

\* ansible.module_utils.network_common.to_list: a copy of a list, [val] of a string
to_list(arg) == IF arg.kind = "list" THEN arg.val ELSE <<arg.val>>

\* What "for index, item in enumerate(commands)" iterates: the elements of a
\* list, the characters of a string (each a one-character string).
Items(arg) ==
  IF arg.kind = "list" THEN arg.val ELSE [i \in 1..Len(arg.val) |-> <<arg.val[i]>>]

\* ---------------------------------------------------------------- commands
Enable == <<"enable">>
TerminalLength == <<"terminal length 0">>
ShowClock == <<"show clock">>
Prompt == <<"prompt()">>
ShowSessions == <<"show configuration sessions">>
ShowRunning == <<"show running-config">>
Configure == <<"configure">>
ConfigureTerminal == <<"configure terminal">>
End == <<"end">>
ConfigureSessionPrefix == <<"configure session ">>
Rollback == <<"rollback clean-config">>
ShowDiffs == <<"show session-config diffs">>
Commit == <<"commit">>
Abort == <<"abort">>

\* 'ansible_%s' % int(time.time())
SessionName(t) == "ansible_" \o ToString(t)

\* 'configure session %s' % session
ConfigureSession(session) == ConfigureSessionPrefix \o <<session>>

\* show commands used with run_commands
ShowVersion == <<"s", "h", " ", "v", "e", "r">>
ShowHostname == <<"s", "h", " ", "h", "o", "s", "t">>
ShowInterfacesJson == <<"s", "h", " ", "i", "n", "t", " ">> \o JsonSuffix
ShowCommands == {ShowVersion, ShowHostname, ShowInterfacesJson}

\* configuration lines used with load_config / configure
InterfaceEth1 == <<"interface Eth1">>
DescriptionTest == <<"description test">>
BannerLogin == <<"banner", " login">>
EOF == <<"EOF">>
ConfigCommands == {InterfaceEth1, DescriptionTest, BannerLogin}

SessionVerbs == {Rollback, ShowDiffs, Commit, Abort}

\* module.jsonify({'command': command, 'sendonly': True}): a payload the shell
\* sends without waiting for a reply.
Sendonly(command) == <<"sendonly: ">> \o command

IsSendonly(cmd) == startswith(cmd, <<"sendonly: ">>)

RECURSIVE SeqsUpTo(_, _)
SeqsUpTo(S, n) ==
  IF n = 0 THEN {<<>>}
  ELSE LET shorter == SeqsUpTo(S, n - 1)
       IN shorter \cup {Append(s, x) : s \in {t \in shorter : Len(t) = n - 1}, x \in S}

Elements(l) == {l[i] : i \in 1..Len(l)}

RECURSIVE SetToSeq(_)
SetToSeq(S) ==
  IF S = {} THEN <<>>
  ELSE LET x == CHOOSE y \in S : TRUE IN <<x>> \o SetToSeq(S \ {x})

RECURSIVE Flatten(_)
Flatten(ss) == IF ss = <<>> THEN <<>> ELSE Head(ss) \o Flatten(Tail(ss))

\* ---------------------------------------------------------------- device
\* The switch: its running configuration (a set of lines), its open
\* configuration sessions (name -> staged change), whether the firmware has
\* sessions at all, whether the account logs in privileged, whether the
\* interactive shell is privileged now, and the mode that shell is in
\* ("exec", "config", or the name of a session).
NewSession == [adds |-> {}, clean |-> FALSE]

\* The configuration a session would commit.
Candidate(dev, sid) ==
  (IF dev.sess[sid].clean THEN {} ELSE dev.running) \cup dev.sess[sid].adds

\* Text of "show session-config diffs": one "+line" / "-line" per changed line.
DiffText(dev, sid) ==
  LET added == SetToSeq(Candidate(dev, sid) \ dev.running)
      removed == SetToSeq(dev.running \ Candidate(dev, sid))
  IN Flatten([i \in 1..Len(added) |-> <<"+">> \o added[i] \o <<"\n">>])
       \o Flatten([i \in 1..Len(removed) |-> <<"-">> \o removed[i] \o <<"\n">>])

\* Text of "show running-config".
ConfigText(dev) ==
  LET lines == SetToSeq(dev.running)
  IN <<"\n">> \o Flatten([i \in 1..Len(lines) |-> lines[i] \o <<"\n">>])

\* Raw text the device prints for a show command.
ShowText(cmd) == <<" ">> \o cmd \o <<"\n">>

PromptText(dev) == IF dev.privileged THEN <<"switch", "#">> ELSE <<"switch", ">">>

Ok(dev, out) == [dev |-> dev, rc |-> 0, out |-> out]

Rejected(dev, cmd) == [dev |-> dev, rc |-> 1, out |-> <<"% Error: ">> \o cmd]

InSession(dev) == dev.mode \in DOMAIN dev.sess

\* One configuration line entered in the current mode.
DevConfigLine(dev, cmd) ==
  IF InSession(dev)
  THEN Ok([dev EXCEPT !.sess[dev.mode].adds = @ \cup {cmd}], <<>>)
  ELSE IF dev.mode = "config"
  THEN Ok([dev EXCEPT !.running = @ \cup {cmd}], <<>>)
  ELSE Rejected(dev, cmd)

\* The device executes one command; rej is the set of commands it rejects
\* during this call.
DevExec(dev, cmd, rej) ==
  IF cmd \in rej THEN Rejected(dev, cmd)
  ELSE IF cmd = Enable THEN Ok([dev EXCEPT !.privileged = TRUE], <<>>)
  ELSE IF cmd \in {ShowClock, TerminalLength} THEN Ok(dev, <<>>)
  ELSE IF IsSendonly(cmd) THEN Ok(DevConfigLine(dev, Tail(cmd)).dev, <<>>)
  ELSE IF cmd = Prompt THEN Ok(dev, PromptText(dev))
  ELSE IF cmd = ShowSessions
  THEN IF dev.sessions THEN Ok(dev, <<>>) ELSE Rejected(dev, cmd)
  ELSE IF startswith(cmd, ShowRunning) THEN Ok(dev, ConfigText(dev))
  ELSE IF cmd \in ShowCommands THEN Ok(dev, ShowText(cmd))
  ELSE IF cmd \in {Configure, ConfigureTerminal}
  THEN IF dev.privileged THEN Ok([dev EXCEPT !.mode = "config"], <<>>) ELSE Rejected(dev, cmd)
  ELSE IF cmd = End THEN Ok([dev EXCEPT !.mode = "exec"], <<>>)
  ELSE IF startswith(cmd, ConfigureSessionPrefix)
  THEN IF dev.sessions /\ dev.privileged /\ Len(cmd) = 2
       THEN LET sid == cmd[2]
            IN Ok([dev EXCEPT !.mode = sid,
                              !.sess = IF sid \in DOMAIN dev.sess THEN @
                                       ELSE [s \in DOMAIN @ \cup {sid} |->
                                               IF s = sid THEN NewSession ELSE @[s]]],
                  <<>>)
       ELSE Rejected(dev, cmd)
  ELSE IF cmd \in SessionVerbs
  THEN IF ~InSession(dev) THEN Rejected(dev, cmd)
       ELSE IF cmd = Rollback
       THEN Ok([dev EXCEPT !.sess[dev.mode] = [adds |-> {}, clean |-> TRUE]], <<>>)
       ELSE IF cmd = ShowDiffs THEN Ok(dev, DiffText(dev, dev.mode))
       ELSE LET rest == [s \in DOMAIN dev.sess \ {dev.mode} |-> dev.sess[s]]
            IN IF cmd = Commit
               THEN Ok([dev EXCEPT !.running = Candidate(dev, dev.mode),
                                   !.sess = rest, !.mode = "exec"], <<>>)
               ELSE Ok([dev EXCEPT !.sess = rest, !.mode = "exec"], <<>>)
  ELSE DevConfigLine(dev, cmd)

\* ---------------------------------------------------------------- world
\* What a call threads through its statements: the device, the commands that
\* reached the device (in order), the eAPI requests issued, and the faults the
\* environment injects into this call: rej (commands the device rejects) and
\* http (which request of the call, if any, meets a transport failure).
World(dev, faults) == [dev |-> dev, sent |-> <<>>, reqs |-> <<>>, faults |-> faults]


\* A finished call: its world, the adapter afterwards, how it ended and what
\* it returned.  keys lists the entries of a returned dict.
NoValue == [keys |-> {}, session |-> "", diff |-> <<>>, list |-> <<>>, text |-> <<>>]

Return(w, self, value) == [w |-> w, self |-> self, status |-> "ok", err |-> "", value |-> value]

Raise(w, self, err) == [w |-> w, self |-> self, status |-> "fail", err |-> err, value |-> NoValue]


\* ModuleGlobals as it would be were the adapters' methods, os and the two
\* misspelt names defined at module level.
ModuleGlobals_MethodsBound ==
  {"re", "time", "CliBase", "env_fallback", "get_exception", "to_list", "Command",
   "iteritems", "NetworkError", "fetch_url", "_DEVICE_CONNECTION",
   "eos_local_argument_spec", "check_args", "load_params", "get_connection", "Cli",
   "Eapi", "is_json", "is_text", "get_config", "run_commands", "load_config",
   "os", "check_authorization", "supports_sessions", "configure", "send_config",
   "_DEVICE_CONFIGS", "response"}

\* ---------------------------------------------------------------- names
\* Names bound at module level when a method body runs: the imports (lines
\* 30-39) and the module's own top-level definitions.  A bare call f(...)
\* inside a method looks f up here (then in the builtins); methods of Cli and
\* Eapi are attributes of the classes and are not in this namespace.
ModuleGlobals ==
  {"re", "time", "CliBase", "env_fallback", "get_exception", "to_list", "Command",
   "iteritems", "NetworkError", "fetch_url", "_DEVICE_CONNECTION",
   "eos_local_argument_spec", "check_args", "load_params", "get_connection", "Cli",
   "Eapi", "is_json", "is_text", "get_config", "run_commands", "load_config"}

Bound(name) == name \in ModuleGlobals

\* Attributes an Eapi instance has after __init__.
EapiAttributes == {"_module", "_enable", "_session_support", "_device_config", "_url"}

\* Python truth value of the values the model stores as strings.
Truthy(v) == v \notin {"None", "False", "", "0"}

\* ---------------------------------------------------------------- Eapi
\* Eapi.__init__: _enable is the enable dict when auth_pass is set, the string
\* 'enable' otherwise.
Eapi_init(auth_pass) ==
  [kind |-> "Eapi",
   _enable |-> IF auth_pass THEN "{cmd: enable, input: auth_pass}" ELSE "enable",
   _session_support |-> "None",
   _device_config |-> <<>>]

\* The device runs the commands of one request in order, from exec mode, and
\* stops at the first one it rejects.
RECURSIVE DevRequestFrom(_, _, _, _, _)
RECURSIVE DevRequestStep(_, _, _, _, _)
DevRequestStep(r, cmds, format, rej, results) ==
  IF r.rc # 0 THEN [dev |-> r.dev, error |-> TRUE, result |-> <<>>, message |-> r.out]
  ELSE DevRequestFrom(r.dev, Tail(cmds), format, rej,
                      Append(results, [kind |-> IF format = "text" THEN "output" ELSE "json",
                                       body |-> r.out]))

DevRequestFrom(dev, cmds, format, rej, results) ==
  IF cmds = <<>> THEN [dev |-> dev, error |-> FALSE, result |-> results, message |-> <<>>]
  ELSE DevRequestStep(DevExec(dev, Head(cmds), rej), cmds, format, rej, results)

\* The interactive shell's mode and privilege are not touched by a request.
DevRequestEnd(r, dev) == [r EXCEPT !.dev.mode = dev.mode, !.dev.privileged = dev.privileged]

\* A request starts in exec mode at the account's own privilege.
DevRequest(dev, cmds, format, rej) ==
  DevRequestEnd(DevRequestFrom([dev EXCEPT !.mode = "exec", !.privileged = dev.account],
                               cmds, format, rej, <<>>),
                dev)

\* Commands of a request that reached the device: all of them, or those up to
\* and including the rejected one.
RECURSIVE Reached(_, _)
Reached(cmds, rej) ==
  IF cmds = <<>> THEN <<>>
  ELSE IF Head(cmds) \in rej THEN <<Head(cmds)>>
  ELSE <<Head(cmds)>> \o Reached(Tail(cmds), rej)


\* send_request_reply without response['result'].pop(0).
send_request_reply_NoPop(w, self, d, commands) ==
  [w |-> [w EXCEPT !.dev = d.dev, !.sent = @ \o Reached(commands, w.faults.rej)],
   status |-> "ok", err |-> "",
   response |-> [error |-> d.error, message |-> d.message, result |-> d.result]]

\* Eapi.send_request, lines 317-320: the first result is dropped when _enable
\* is truthy and the response has a result.
send_request_reply(w, self, d, commands) ==
  [w |-> [w EXCEPT !.dev = d.dev, !.sent = @ \o Reached(commands, w.faults.rej)],
   status |-> "ok", err |-> "",
   response |-> [error |-> d.error, message |-> d.message,
                 result |-> IF Truthy(self._enable) /\ ~d.error THEN Tail(d.result)
                            ELSE d.result]]

\* Eapi.send_request, lines 297-315: the request is posted; a status other
\* than 200 or an unreadable body ends the call through fail_json.
send_request_post(w, self, commands, output) ==
  IF w.faults.http = Len(w.reqs)
  THEN [w |-> w, status |-> "fail", err |-> "fail_json: transport",
        response |-> [error |-> FALSE, message |-> <<>>, result |-> <<>>]]
  ELSE send_request_reply(w, self, DevRequest(w.dev, commands, output, w.faults.rej),
                          commands)

\* send_request_commands with 'enable' going first only when _enable holds a
\* credential.
send_request_commands_CredentialOnly(self, arg) ==
  IF self._enable \notin {"None", "enable"} THEN <<Enable>> \o to_list(arg) ELSE to_list(arg)

\* Eapi.send_request, lines 292-295: 'enable' goes first when _enable is truthy.
send_request_commands(self, arg) ==
  IF Truthy(self._enable) THEN <<Enable>> \o to_list(arg) ELSE to_list(arg)

\* Eapi.send_request
send_request(w, self, arg, output) ==
  send_request_post([w EXCEPT !.reqs = Append(@, [cmds |-> send_request_commands(self, arg),
                                                  format |-> output])],
                    self, send_request_commands(self, arg), output)


\* Eapi_send_check without the test for 'error' in the response.
Eapi_send_check_NoErrorTest(r) ==
  IF r.status = "fail" THEN [w |-> r.w, status |-> "fail", err |-> r.err, result |-> <<>>]
  ELSE [w |-> r.w, status |-> "ok", err |-> "", result |-> r.response.result]

\* Eapi.run_commands._send, lines 331-334
Eapi_send_check(r) ==
  IF r.status = "fail" THEN [w |-> r.w, status |-> "fail", err |-> r.err, result |-> <<>>]
  ELSE IF r.response.error
  THEN [w |-> r.w, status |-> "fail", err |-> "fail_json: device error", result |-> <<>>]
  ELSE [w |-> r.w, status |-> "ok", err |-> "", result |-> r.response.result]

\* Eapi.run_commands._send
Eapi_send(w, self, commands, output) ==
  Eapi_send_check(send_request(w, self, List(commands), output))


\* Eapi_flush_before with the text-to-json half of the test lost.
Eapi_flush_before_JsonOnly(output, item) == output = "json" /\ is_text(item)

\* Whether the loop of Eapi.run_commands flushes the queue before taking item.
Eapi_flush_before(output, item) ==
  (output = "json" /\ is_text(item)) \/ (output = "text" /\ is_json(item))

\* Eapi_format with every command taken for a text command.
Eapi_format_Text(item) == "text"

\* Line 341-344: the format the queue has once item is in it.
Eapi_format(item) == IF is_json(item) THEN "json" ELSE "text"

\* Eapi.run_commands, the loop over to_list(commands) and the final flush.
RECURSIVE Eapi_run_loop(_, _, _, _, _, _)
RECURSIVE Eapi_run_flushed(_, _, _, _)
Eapi_run_flushed(s, self, items, responses) ==
  IF s.status = "fail" THEN s
  ELSE Eapi_run_loop(s.w, self, Tail(items), Eapi_format(Head(items)), <<Head(items)>>,
                     responses \o s.result)

Eapi_run_last(s, responses) == [s EXCEPT !.result = responses \o @]

Eapi_run_loop(w, self, items, output, queue, responses) ==
  IF items = <<>>
  THEN IF queue # <<>> THEN Eapi_run_last(Eapi_send(w, self, queue, output), responses)
       ELSE [w |-> w, status |-> "ok", err |-> "", result |-> responses]
  ELSE IF Eapi_flush_before(output, Head(items))
  THEN Eapi_run_flushed(Eapi_send(w, self, queue, output), self, items, responses)
  ELSE Eapi_run_loop(w, self, Tail(items), Eapi_format(Head(items)),
                     Append(queue, Head(items)), responses)

\* Eapi.run_commands, the loop "for index, item in enumerate(commands)":
\* responses[index] = responses[index]['output'].strip() for each text item.
RECURSIVE Eapi_postprocess(_, _, _)
Eapi_postprocess(items, index, responses) ==
  IF index > Len(items) THEN [status |-> "ok", err |-> "", result |-> responses]
  ELSE IF ~is_text(items[index]) THEN Eapi_postprocess(items, index + 1, responses)
  ELSE IF index > Len(responses)
  THEN [status |-> "fail", err |-> "IndexError", result |-> <<>>]
  ELSE IF responses[index].kind = "json"
  THEN [status |-> "fail", err |-> "KeyError", result |-> <<>>]
  ELSE IF responses[index].kind # "output"
  THEN [status |-> "fail", err |-> "TypeError", result |-> <<>>]
  ELSE Eapi_postprocess(items, index + 1,
         [responses EXCEPT ![index] = [kind |-> "str", body |-> strip(@.body)]])

Eapi_run_result(w, self, p) ==
  IF p.status = "fail" THEN Raise(w, self, p.err)
  ELSE Return(w, self, [NoValue EXCEPT !.list = p.result])

Eapi_run_sent(sent, self, commands) ==
  IF sent.status = "fail" THEN Raise(sent.w, self, sent.err)
  ELSE Eapi_run_result(sent.w, self, Eapi_postprocess(Items(commands), 1, sent.result))

\* Eapi.run_commands
Eapi_run_commands(w, self, commands) ==
  Eapi_run_sent(Eapi_run_loop(w, self, to_list(commands), "None", <<>>, <<>>), self, commands)

\* cmd = ('show running-config ' + ' '.join(flags)).strip()
RECURSIVE join(_, _)
join(sep, parts) ==
  IF parts = <<>> THEN <<>>
  ELSE IF Len(parts) = 1 THEN Head(parts)
  ELSE Head(parts) \o sep \o join(sep, Tail(parts))

running_config_cmd(flags) == strip(ShowRunning \o <<" ">> \o join(<<" ">>, flags))

\* A dict with d[key] = value set.
Store(d, key, value) == [k \in DOMAIN d \cup {key} |-> IF k = key THEN value ELSE d[k]]

\* Eapi.get_config, lines 368-370
Eapi_get_config_store(w, self, cmd, cfg) ==
  Return(w, [self EXCEPT !._device_config = Store(@, cmd, cfg)], [NoValue EXCEPT !.text = cfg])

\* Eapi.get_config, lines 367-368: out['result'] of an error response is a KeyError.
Eapi_get_config_fetched(out, self, cmd) ==
  IF out.status = "fail" THEN Raise(out.w, self, out.err)
  ELSE IF out.response.error THEN Raise(out.w, self, "KeyError")
  ELSE Eapi_get_config_store(out.w, self, cmd, strip(out.response.result[1].body))

\* Eapi.get_config: the cache is read and written as self._device_configs,
\* an attribute __init__ never sets (it sets _device_config), so the lookup
\* raises AttributeError, which "except KeyError" does not catch.
Eapi_get_config_cmd(w, self, cmd) ==
  IF "_device_configs" \notin EapiAttributes THEN Raise(w, self, "AttributeError")
  ELSE IF cmd \in DOMAIN self._device_config
  THEN Return(w, self, [NoValue EXCEPT !.text = self._device_config[cmd]])
  ELSE Eapi_get_config_fetched(send_request(w, self, Str(cmd), "text"), self, cmd)

Eapi_get_config(w, self, flags) == Eapi_get_config_cmd(w, self, running_config_cmd(flags))

\* Eapi.supports_sessions, lines 376-377
Eapi_supports_sessions_probed(r, self) ==
  IF r.status = "fail"
  THEN [w |-> r.w, self |-> self, status |-> "fail", err |-> r.err, val |-> FALSE]
  ELSE [w |-> r.w,
        self |-> [self EXCEPT !._session_support =
                                IF r.response.error THEN "False" ELSE "True"],
        status |-> "ok", err |-> "", val |-> ~r.response.error]

\* Eapi.supports_sessions: answers from _session_support when that is truthy,
\* probes otherwise.  val is the answer.
Eapi_supports_sessions(w, self) ==
  IF Truthy(self._session_support)
  THEN [w |-> w, self |-> self, status |-> "ok", err |-> "", val |-> TRUE]
  ELSE Eapi_supports_sessions_probed(send_request(w, self, List(<<ShowSessions>>), "text"),
                                     self)

\* Eapi.configure, lines 386-390: the name response is bound nowhere (the
\* reply was stored as responses); responses is the reply dict, which line
\* 390 slices, a TypeError.
Eapi_configure_sent(r, self) ==
  IF r.status = "fail" THEN Raise(r.w, self, r.err)
  ELSE IF ~Bound("response") THEN Raise(r.w, self, "NameError")
  ELSE IF r.response.error THEN Raise(r.w, self, "fail_json: device error")
  ELSE Raise(r.w, self, "TypeError")

\* Eapi.configure: builds cmds (with 'configure terminal') but sends commands.
Eapi_configure(w, self, commands) ==
  Eapi_configure_sent(send_request(w, self, List(commands), "text"), self)

\* Eapi.load_config, lines 425-429
Eapi_load_result(w, self, session, diff) ==
  Return(w, self, [NoValue EXCEPT !.session = session, !.diff = diff,
                                  !.keys = IF diff # <<>> THEN {"session", "diff"}
                                           ELSE {"session"}])

\* Eapi.load_config, lines 424-425: response['result'] of an error response
\* is a KeyError.
Eapi_load_finished(second, self, session) ==
  IF second.status = "fail" THEN Raise(second.w, self, second.err)
  ELSE IF second.response.error THEN Raise(second.w, self, "KeyError")
  ELSE Eapi_load_result(second.w, self, session, second.response.result[2].body)

\* Eapi.load_config, lines 413-416
Eapi_load_aborted(undo, self) ==
  IF undo.status = "fail" THEN Raise(undo.w, self, undo.err)
  ELSE Raise(undo.w, self, "fail_json: device error")

\* Eapi.load_config, lines 412-424
Eapi_load_applied(first, self, session, commit) ==
  IF first.status = "fail" THEN Raise(first.w, self, first.err)
  ELSE IF first.response.error
  THEN Eapi_load_aborted(send_request(first.w, self,
                                      List(<<ConfigureSession(session), Abort>>), "text"),
                         self)
  ELSE Eapi_load_finished(
         send_request(first.w, self,
                      List(<<ConfigureSession(session), ShowDiffs>>
                             \o (IF commit THEN <<Commit>> ELSE <<Abort>>)),
                      "text"),
         self, session)

\* Eapi.load_config from line 402 on: the session path.
Eapi_load_session(w, self, config, commit, replace, now) ==
  Eapi_load_applied(
    send_request(w, self,
                 List(<<ConfigureSession(SessionName(now))>>
                        \o (IF replace THEN <<Rollback>> ELSE <<>>) \o config),
                 "text"),
    self, SessionName(now), commit)

\* Eapi.load_config, lines 399-400: the fallback passes the local commands,
\* which is assigned only from line 404 on.
Eapi_load_probed(s, config, commit, replace, now) ==
  IF s.status = "fail" THEN Raise(s.w, s.self, s.err)
  ELSE IF ~s.val
  THEN Raise(s.w, s.self, IF Bound("configure") THEN "UnboundLocalError" ELSE "NameError")
  ELSE Eapi_load_session(s.w, s.self, config, commit, replace, now)

\* Eapi.load_config: line 399 calls the bare name supports_sessions.
Eapi_load_config(w, self, config, commit, replace, now) ==
  IF ~Bound("supports_sessions") THEN Raise(w, self, "NameError")
  ELSE Eapi_load_probed(Eapi_supports_sessions(w, self), config, commit, replace, now)

\* ---------------------------------------------------------------- Cli
\* CliBase.exec_command: the shell sends one command and waits for the prompt;
\* (rc, out) is the device's verdict and output.
exec_command_done(w, cmd, r) ==
  [w |-> [w EXCEPT !.dev = r.dev, !.sent = Append(@, cmd)], rc |-> r.rc, out |-> r.out]

exec_command(w, cmd) == exec_command_done(w, cmd, DevExec(w.dev, cmd, w.faults.rej))

\* Cli.authorize, when module.params['authorize'] is set
Cli_authorize(w, authorize) == IF authorize THEN exec_command(w, Enable).w ELSE w

\* Cli.__init__: connect() sends 'terminal length 0', then authorize().
Cli_init(w, authorize) == Cli_authorize(exec_command(w, TerminalLength).w, authorize)

\* Cli.check_authorization: the output of the last probe, 'prompt()', ends in '#'.
Cli_check_authorization_out(prompt) == [w |-> prompt.w, val |-> endswith(prompt.out, <<"#">>)]

Cli_check_authorization(w) ==
  Cli_check_authorization_out(exec_command(exec_command(w, ShowClock).w, Prompt))

\* Cli.supports_sessions
Cli_supports_sessions_rc(r) == [w |-> r.w, val |-> r.rc = 0]

Cli_supports_sessions(w) == Cli_supports_sessions_rc(exec_command(w, ShowSessions))

\* Cli.send_config, the loop: a command starting with 'banner' turns multiline
\* on; the test for 'EOF' is the elif of the test "startswith('banner') or
\* multiline".
Cli_multiline(command, multiline) ==
  IF startswith(command, <<"banner">>) \/ multiline THEN TRUE
  ELSE IF command = EOF /\ multiline THEN FALSE
  ELSE multiline

Cli_payload(command, multiline) ==
  IF startswith(command, <<"banner">>) \/ multiline THEN Sendonly(command) ELSE command

RECURSIVE Cli_send_config_loop(_, _, _, _)
RECURSIVE Cli_send_config_step(_, _, _)
Cli_send_config_step(r, commands, multiline) ==
  IF r.rc # 0 THEN [w |-> r.w, status |-> "ok", rc |-> r.rc, out |-> r.out]
  ELSE Cli_send_config_loop(r.w, Tail(commands), Cli_multiline(Head(commands), multiline),
                            TRUE)

Cli_send_config_loop(w, commands, multiline, any) ==
  IF commands = <<>>
  THEN IF any THEN [w |-> w, status |-> "ok", rc |-> 0, out |-> <<"ok">>]
       ELSE [w |-> w, status |-> "UnboundLocalError", rc |-> 0, out |-> <<>>]
  ELSE Cli_send_config_step(exec_command(w, Cli_payload(Head(commands), multiline)),
                            commands, multiline)

\* Cli.send_config; with no command the final "return (rc, 'ok', '')" reads rc
\* before any assignment.
Cli_send_config(w, commands) == Cli_send_config_loop(w, commands, FALSE, FALSE)

\* Cli.configure, lines 209-213
Cli_configure_sent(s, self) ==
  IF s.status # "ok" THEN Raise(s.w, self, s.status)
  ELSE IF s.rc # 0 THEN Raise(s.w, self, "fail_json: device error")
  ELSE Return(exec_command(s.w, End).w, self, NoValue)

\* Cli.configure, lines 205-208: line 208 calls the bare name send_config.
Cli_configure_entered(enter, self, commands) ==
  IF enter.rc # 0 THEN Raise(enter.w, self, "fail_json: unable to enter configuration mode")
  ELSE IF ~Bound("send_config") THEN Raise(enter.w, self, "NameError")
  ELSE Cli_configure_sent(Cli_send_config(enter.w, commands), self)

\* Cli.configure, lines 199-204
Cli_configure_checked(auth, self, commands) ==
  IF ~auth.val
  THEN Raise(auth.w, self, "fail_json: configuration operations require privilege escalation")
  ELSE Cli_configure_entered(exec_command(auth.w, Configure), self, commands)

\* Cli.configure: line 199 calls the bare name check_authorization.
Cli_configure(w, self, commands) ==
  IF ~Bound("check_authorization") THEN Raise(w, self, "NameError")
  ELSE Cli_configure_checked(Cli_check_authorization(w), self, commands)

\* os.getenv('ANSIBLE_EOS_USE_SESSIONS', True), through int() when it parses,
\* as a truth value.
use_session(env) ==
  Truthy(IF env \in {"unset", "1"} THEN "1" ELSE env)

\* Cli.load_config, lines 247-255: commit or abort, whose outcome is not read.
Cli_load_result(final, self, session, diffs) ==
  Return(final.w, self,
         [NoValue EXCEPT !.session = session,
                         !.diff = IF diffs.rc = 0 THEN strip(diffs.out) ELSE <<>>,
                         !.keys = IF diffs.rc = 0 THEN {"session", "diff"} ELSE {"session"}])

\* Cli.load_config, lines 246-253
Cli_load_diffed(diffs, self, session, commit) ==
  Cli_load_result(exec_command(diffs.w, IF commit THEN Commit ELSE Abort), self, session,
                  diffs)

\* Cli.load_config, lines 242-246: conn is the Cli instance, which has no
\* fail_json.
Cli_load_sent(s, self, session, commit) ==
  IF s.status # "ok" THEN Raise(s.w, self, s.status)
  ELSE IF s.rc # 0 THEN Raise(exec_command(s.w, Abort).w, self, "AttributeError")
  ELSE Cli_load_diffed(exec_command(s.w, ShowDiffs), self, session, commit)

\* Cli.load_config, lines 239-241: exec_command(..., check_rc=True) ends the
\* call when the command fails; line 241 calls the bare name send_config.
Cli_load_cleaned(clean, self, commands, session, commit) ==
  IF clean.rc # 0 THEN Raise(clean.w, self, "fail_json: check_rc")
  ELSE IF ~Bound("send_config") THEN Raise(clean.w, self, "NameError")
  ELSE Cli_load_sent(Cli_send_config(clean.w, commands), self, session, commit)

\* Cli.load_config, lines 235-239
Cli_load_entered(enter, self, commands, session, commit, replace) ==
  IF enter.rc # 0 THEN Raise(enter.w, self, "fail_json: unable to enter configuration mode")
  ELSE Cli_load_cleaned(IF replace THEN exec_command(enter.w, Rollback)
                        ELSE [w |-> enter.w, rc |-> 0, out |-> <<>>],
                        self, commands, session, commit)

\* Cli.load_config from line 230 on: the session path.
Cli_load_session(w, self, commands, commit, replace, now) ==
  Cli_load_entered(exec_command(w, ConfigureSession(SessionName(now))), self, commands,
                   SessionName(now), commit, replace)

\* Cli.load_config, lines 227-228: line 228 calls the bare name configure.
Cli_load_probed(probe, self, commands, commit, replace, env, now) ==
  IF ~(use_session(env) /\ probe.val)
  THEN IF ~Bound("configure") THEN Raise(probe.w, self, "NameError")
       ELSE Cli_configure(probe.w, self, commands)
  ELSE Cli_load_session(probe.w, self, commands, commit, replace, now)

\* Cli.load_config, lines 218-227: line 221 reads os, line 227 calls the bare
\* name supports_sessions.
Cli_load_checked(auth, self, commands, commit, replace, env, now) ==
  IF ~auth.val
  THEN Raise(auth.w, self, "fail_json: configuration operations require privilege escalation")
  ELSE IF ~Bound("os") \/ ~Bound("supports_sessions") THEN Raise(auth.w, self, "NameError")
  ELSE Cli_load_probed(Cli_supports_sessions(auth.w), self, commands, commit, replace, env,
                       now)

\* Cli.load_config: line 218 calls the bare name check_authorization.
Cli_load_config(w, self, commands, commit, replace, env, now) ==
  IF ~Bound("check_authorization") THEN Raise(w, self, "NameError")
  ELSE Cli_load_checked(Cli_check_authorization(w), self, commands, commit, replace, env, now)

\* Cli.get_config, lines 152-157
Cli_get_config_fetched(e, self, configs, cmd) ==
  IF e.rc # 0 THEN [r |-> Raise(e.w, self, "fail_json: device error"), configs |-> configs]
  ELSE [r |-> Return(e.w, self, [NoValue EXCEPT !.text = strip(e.out)]),
        configs |-> Store(configs, cmd, strip(e.out))]

\* Cli.get_config: the cache is the bare name _DEVICE_CONFIGS, which nothing
\* binds, so the lookup raises NameError, which "except KeyError" does not catch.
Cli_get_config_cmd(w, self, configs, cmd) ==
  IF ~Bound("_DEVICE_CONFIGS") THEN [r |-> Raise(w, self, "NameError"), configs |-> configs]
  ELSE IF cmd \in DOMAIN configs
  THEN [r |-> Return(w, self, [NoValue EXCEPT !.text = configs[cmd]]), configs |-> configs]
  ELSE Cli_get_config_fetched(exec_command(w, cmd), self, configs, cmd)

Cli_get_config(w, self, configs, flags) ==
  Cli_get_config_cmd(w, self, configs, running_config_cmd(flags))

\* Cli.run_commands (check_rc=True): each output is parsed as JSON when it
\* parses (the output of a '| json' command does), stripped otherwise.
RECURSIVE Cli_run_loop(_, _, _, _)
RECURSIVE Cli_run_step(_, _, _, _)
Cli_run_step(e, self, commands, responses) ==
  IF e.rc # 0 THEN Raise(e.w, self, "fail_json: device error")
  ELSE Cli_run_loop(e.w, self, Tail(commands),
                    Append(responses,
                           IF is_json(Head(commands)) THEN [kind |-> "json", body |-> e.out]
                           ELSE [kind |-> "str", body |-> strip(e.out)]))

Cli_run_loop(w, self, commands, responses) ==
  IF commands = <<>> THEN Return(w, self, [NoValue EXCEPT !.list = responses])
  ELSE Cli_run_step(exec_command(w, Head(commands)), self, commands, responses)

Cli_run_commands(w, self, commands) == Cli_run_loop(w, self, to_list(commands), <<>>)

\* ---------------------------------------------------------------- state
VARIABLES
  DEVICE_CONNECTION,  \* the module global _DEVICE_CONNECTION: the adapter, or None
  DEVICE_CONFIGS,     \* what _DEVICE_CONFIGS would hold were the name bound
  params,             \* module.params of this process: transport, auth_pass, authorize
  env,                \* ANSIBLE_EOS_USE_SESSIONS in this process's environment
  alive,              \* the process has not ended with an exception or fail_json
  device,             \* the switch
  faults,             \* what goes wrong: rej, the commands the switch rejects, and
                      \* http, the request of each call that meets a transport failure
  now,                \* int(time.time())
  fetches,            \* running-config key -> round-trips made for it by this process
  last                \* the most recent call: its arguments, outcome and traffic

vars ==
  <<DEVICE_CONNECTION, DEVICE_CONFIGS, params, env, alive, device, faults, now, fetches, last>>

None == [kind |-> "None", _enable |-> "None", _session_support |-> "None",
         _device_config |-> <<>>]

Cli_instance == [None EXCEPT !.kind = "Cli"]

Params ==
  [transport : {"cli"}, auth_pass : {FALSE}, authorize : BOOLEAN]
    \cup [transport : {"eapi"}, auth_pass : BOOLEAN, authorize : {FALSE}]

EnvValues == {"unset", "0", "1", "no"}

FlagLists == {<<>>, <<<<"all">>>>}

ConfigKeys == {running_config_cmd(flags) : flags \in FlagLists}

NoFaults == [rej |-> {}, http |-> 0]

\* One thing goes wrong at most: one of cmds is rejected, or the first or the
\* second request of a call fails in transport.
Faults(cmds) ==
  {NoFaults} \cup {[rej |-> {c}, http |-> 0] : c \in cmds}
             \cup {[rej |-> {}, http |-> k] : k \in 1..2}

Devices(configs) ==
  {[running |-> r, sess |-> <<>>, sessions |-> s, account |-> a, privileged |-> a,
    mode |-> "exec"] : r \in configs, s \in BOOLEAN, a \in BOOLEAN}

Idle == [op |-> "none", kind |-> "None", arg |-> List(<<>>), commit |-> FALSE,
         replace |-> FALSE, status |-> "ok", err |-> "", value |-> NoValue,
         sent |-> <<>>, reqs |-> <<>>, before |-> {}, faults |-> NoFaults, made |-> FALSE]

\* get_connection without the test of _DEVICE_CONNECTION: an adapter per call.
get_connection_AlwaysNew(w, conn, p) ==
  IF p.transport = "eapi" THEN [w |-> w, self |-> Eapi_init(p.auth_pass)]
  ELSE [w |-> Cli_init(w, p.authorize), self |-> Cli_instance]

\* get_connection: constructs the adapter named by module.params['transport']
\* when _DEVICE_CONNECTION is falsy, and returns _DEVICE_CONNECTION.
get_connection(w, conn, p) ==
  IF conn.kind # "None" THEN [w |-> w, self |-> conn]
  ELSE IF p.transport = "eapi" THEN [w |-> w, self |-> Eapi_init(p.auth_pass)]
  ELSE [w |-> Cli_init(w, p.authorize), self |-> Cli_instance]

\* Round-trips for running-config key k among the commands a call sent.
RoundTrips(sent, k) == Cardinality({i \in 1..Len(sent) : sent[i] = k})

\* The state after a call that ended as r.
Finish(op, arg, commit, replace, r, configs) ==
  /\ DEVICE_CONNECTION' = r.self
  /\ DEVICE_CONFIGS' = configs
  /\ device' = r.w.dev
  /\ alive' = (r.status = "ok")
  /\ fetches' = [k \in ConfigKeys |-> fetches[k] + RoundTrips(r.w.sent, k)]
  /\ last' = [op |-> op, kind |-> r.self.kind, arg |-> arg, commit |-> commit,
              replace |-> replace, status |-> r.status, err |-> r.err,
              value |-> r.value, sent |-> r.w.sent, reqs |-> r.w.reqs,
              before |-> device.running, faults |-> faults,
              made |-> DEVICE_CONNECTION.kind = "None"]
  /\ UNCHANGED <<params, env, faults, now>>

InitWith(devices, faultSet) ==
  /\ DEVICE_CONNECTION = None
  /\ DEVICE_CONFIGS = <<>>
  /\ params \in Params
  /\ env \in EnvValues
  /\ alive = TRUE
  /\ device \in devices
  /\ faults \in faultSet
  /\ now = 1
  /\ fetches = [k \in ConfigKeys |-> 0]
  /\ last = Idle

\* A module calls get_connection(module); p is that module's params, whose
\* transport the call's record keeps as its argument.
Connected(c) == Return(c.w, c.self, NoValue)

GetConnection(p) ==
  /\ alive
  /\ Finish("get_connection", Str(<<p.transport>>), FALSE, FALSE,
            Connected(get_connection(World(device, faults), DEVICE_CONNECTION, p)),
            DEVICE_CONFIGS)

\* conn.get_config(flags) on the adapter get_connection returned
conn_get_config(c, configs, flags) ==
  IF c.self.kind = "Eapi"
  THEN [r |-> Eapi_get_config(c.w, c.self, flags), configs |-> configs]
  ELSE Cli_get_config(c.w, c.self, configs, flags)

GetConfigDone(flags, g) == Finish("get_config", List(flags), FALSE, FALSE, g.r, g.configs)

\* The module-level get_config(module, flags).
GetConfig(flags) ==
  /\ alive
  /\ fetches[running_config_cmd(flags)] < MaxFetch
  /\ GetConfigDone(flags,
                   conn_get_config(get_connection(World(device, faults), DEVICE_CONNECTION,
                                                  params),
                                   DEVICE_CONFIGS, flags))

\* conn.run_commands(commands) on the adapter get_connection returned
conn_run_commands(c, commands) ==
  IF c.self.kind = "Eapi" THEN Eapi_run_commands(c.w, c.self, commands)
  ELSE Cli_run_commands(c.w, c.self, commands)

\* The module-level run_commands(module, commands).
RunCommands(commands) ==
  /\ alive
  /\ Finish("run_commands", commands, FALSE, FALSE,
            conn_run_commands(get_connection(World(device, faults), DEVICE_CONNECTION,
                                             params),
                              commands),
            DEVICE_CONFIGS)

\* conn.load_config(config, commit, replace) on the adapter get_connection
\* returned; t is int(time.time()), e the process environment.
conn_load_config(c, config, commit, replace, e, t) ==
  IF c.self.kind = "Eapi" THEN Eapi_load_config(c.w, c.self, config, commit, replace, t)
  ELSE Cli_load_config(c.w, c.self, config, commit, replace, e, t)

\* The module-level load_config(module, config, commit, replace).
LoadConfig(config, commit, replace) ==
  /\ alive
  /\ Finish("load_config", List(config), commit, replace,
            conn_load_config(get_connection(World(device, faults), DEVICE_CONNECTION,
                                            params),
                             config, commit, replace, env, now),
            DEVICE_CONFIGS)

\* conn.configure(commands) on the adapter get_connection returned
conn_configure(c, commands) ==
  IF c.self.kind = "Eapi" THEN Eapi_configure(c.w, c.self, commands)
  ELSE Cli_configure(c.w, c.self, commands)

\* A module calls get_connection(module).configure(commands).
ConfigureDirect(commands) ==
  /\ alive
  /\ Finish("configure", List(commands), FALSE, FALSE,
            conn_configure(get_connection(World(device, faults), DEVICE_CONNECTION, params),
                           commands),
            DEVICE_CONFIGS)

\* conn.send_config(commands) on the adapter get_connection returned: a method
\* of Cli only.  The value tells whether the returned rc is 0.
Cli_send_config_result(s, self) ==
  IF s.status # "ok" THEN Raise(s.w, self, s.status)
  ELSE Return(s.w, self, [NoValue EXCEPT !.keys = {IF s.rc = 0 THEN "rc = 0" ELSE "rc # 0"}])

conn_send_config(c, commands) ==
  IF c.self.kind = "Eapi" THEN Raise(c.w, c.self, "AttributeError")
  ELSE Cli_send_config_result(Cli_send_config(c.w, commands), c.self)

\* A module calls get_connection(module).send_config(commands).
SendConfig(commands) ==
  /\ alive
  /\ Finish("send_config", List(commands), FALSE, FALSE,
            conn_send_config(get_connection(World(device, faults), DEVICE_CONNECTION, params),
                             commands),
            DEVICE_CONFIGS)

\* conn.supports_sessions() on the adapter get_connection returned
Cli_answer(p, self) == [w |-> p.w, self |-> self, status |-> "ok", err |-> "", val |-> p.val]

conn_supports_sessions(c) ==
  IF c.self.kind = "Eapi" THEN Eapi_supports_sessions(c.w, c.self)
  ELSE Cli_answer(Cli_supports_sessions(c.w), c.self)

\* The answer of supports_sessions as the call's value.
Answered(s) ==
  [w |-> s.w, self |-> s.self, status |-> s.status, err |-> s.err,
   value |-> [NoValue EXCEPT !.keys = IF s.val THEN {"True"} ELSE {"False"}]]

\* A module calls get_connection(module).supports_sessions().
SupportsSessions ==
  /\ alive
  /\ Finish("supports_sessions", List(<<>>), FALSE, FALSE,
            Answered(conn_supports_sessions(get_connection(World(device, faults),
                                                           DEVICE_CONNECTION, params))),
            DEVICE_CONFIGS)

\* The clock advances.
Tick ==
  /\ now < MaxTime
  /\ now' = now + 1
  /\ UNCHANGED <<DEVICE_CONNECTION, DEVICE_CONFIGS, params, env, alive, device, faults,
                 fetches, last>>

\* The fault goes away.
Repair ==
  /\ faults # NoFaults
  /\ faults' = NoFaults
  /\ UNCHANGED <<DEVICE_CONNECTION, DEVICE_CONFIGS, params, env, alive, device, now,
                 fetches, last>>

\* The process ends and the next automation run starts: a fresh process and a
\* fresh login on the same switch, whose configuration and pending sessions
\* persist.
StartProcess(p, e) ==
  /\ DEVICE_CONNECTION' = None
  /\ DEVICE_CONFIGS' = <<>>
  /\ params' = p
  /\ env' = e
  /\ alive' = TRUE
  /\ device' = [device EXCEPT !.mode = "exec", !.privileged = device.account]
  /\ fetches' = [k \in ConfigKeys |-> 0]
  /\ last' = Idle
  /\ UNCHANGED <<faults, now>>

ConfigLists == SeqsUpTo(ConfigCommands, MaxCfg)

\* command lists handed to send_config: configuration lines, a banner and its
\* terminator
ConfigLines == SeqsUpTo(ConfigCommands \cup {EOF}, MaxLines)

CommandArgs ==
  {List(l) : l \in SeqsUpTo(ShowCommands, MaxCmds)} \cup {Str(c) : c \in ShowCommands}

\* ---------------------------------------------------------------- specifications
\* Everything a process can do.
Init ==
  InitWith(Devices(SUBSET ConfigCommands),
           Faults(ShowCommands \cup ConfigCommands \cup SessionVerbs \cup ConfigKeys
                    \cup {ShowSessions}))

Next ==
  \/ \E p \in Params : GetConnection(p)
  \/ \E flags \in FlagLists : GetConfig(flags)
  \/ \E c \in CommandArgs : RunCommands(c)
  \/ \E c \in ConfigLists, commit \in BOOLEAN, replace \in BOOLEAN :
       LoadConfig(c, commit, replace)
  \/ \E c \in ConfigLists : ConfigureDirect(c)
  \/ \E c \in ConfigLines : SendConfig(c)
  \/ SupportsSessions
  \/ Tick
  \/ Repair
  \/ \E p \in Params, e \in EnvValues : StartProcess(p, e)

Spec == Init /\ [][Next]_vars

\* run_commands on a switch that rejects one show command or none.
InitRunCommands ==
  /\ InitWith({d \in Devices({{}}) : d.sessions /\ d.account}, Faults(ShowCommands))
  /\ env = "unset"

NextRunCommands ==
  \/ \E c \in CommandArgs : RunCommands(c)
  \/ Repair
  \/ \E p \in Params : StartProcess(p, env)

SpecRunCommands == InitRunCommands /\ [][NextRunCommands]_vars

\* load_config on a switch with or without sessions, privileged or not, that
\* rejects one configuration line or one session command, or none.
InitLoadConfig ==
  InitWith(Devices({{}, {DescriptionTest}}), Faults(ConfigCommands \cup SessionVerbs))

NextLoadConfig ==
  \/ \E c \in ConfigLists, commit \in BOOLEAN, replace \in BOOLEAN :
       LoadConfig(c, commit, replace)
  \/ Repair
  \/ \E p \in Params, e \in EnvValues : StartProcess(p, e)

SpecLoadConfig == InitLoadConfig /\ [][NextLoadConfig]_vars

\* get_config on a switch with any running configuration.
InitGetConfig ==
  /\ InitWith({d \in Devices(SUBSET ConfigCommands) : d.sessions /\ d.account},
              Faults(ConfigKeys))
  /\ env = "unset"

NextGetConfig ==
  \/ \E flags \in FlagLists : GetConfig(flags)
  \/ Repair
  \/ \E p \in Params : StartProcess(p, env)

SpecGetConfig == InitGetConfig /\ [][NextGetConfig]_vars


\* The connection and its session-support answer, on a switch with or without
\* sessions that may reject the probe.
InitConnection ==
  /\ InitWith(Devices({{}}), Faults({ShowSessions}))
  /\ env = "unset"

NextConnection ==
  \/ \E p \in Params : GetConnection(p)
  \/ SupportsSessions
  \/ Repair
  \/ \E p \in Params : StartProcess(p, env)

SpecConnection == InitConnection /\ [][NextConnection]_vars

\* configure called directly, on a switch that rejects one configuration line
\* or none.
InitConfigure ==
  /\ InitWith(Devices({{}, {DescriptionTest}}), Faults(ConfigCommands))
  /\ env = "unset"

NextConfigure ==
  \/ \E c \in ConfigLists : ConfigureDirect(c)
  \/ Repair
  \/ \E p \in Params : StartProcess(p, env)

SpecConfigure == InitConfigure /\ [][NextConfigure]_vars

\* send_config called directly, on a switch that rejects one configuration
\* line or none.
InitSendConfig ==
  /\ InitWith(Devices({{}}), Faults(ConfigCommands))
  /\ env = "unset"

NextSendConfig ==
  \/ \E c \in ConfigLines : SendConfig(c)
  \/ Repair
  \/ \E p \in Params : StartProcess(p, env)

SpecSendConfig == InitSendConfig /\ [][NextSendConfig]_vars

\* ---------------------------------------------------------------- run_commands
\* The last call was run_commands on the RPC adapter.
EapiRan == last.op = "run_commands" /\ last.kind = "Eapi"

\* The commands of the last call, as a list.
LastCommands == to_list(last.arg)

\* Nothing went wrong during the last call: no request failed in transport
\* and the device rejected none of its commands.
NoDeviceError == last.faults.http = 0 /\ last.faults.rej \cap Elements(LastCommands) = {}

\* Adjacent positions of cmds where the expected format changes.
FormatChanges(cmds) ==
  Cardinality({i \in 1..Len(cmds) - 1 : is_json(cmds[i]) # is_json(cmds[i + 1])})

\* What the device answers to cmd in the format the command asks for.
DeviceResponse(cmd) ==
  [kind |-> IF is_json(cmd) THEN "json" ELSE "output", body |-> ShowText(cmd)]

\* C5: without a device error, the RPC adapter's run_commands issues no
\* request for an empty command sequence and, for a non-empty one, one request
\* plus one per adjacent pair of commands whose expected format differs; a
\* non-empty sequence of one format takes exactly one request.
C5_RequestCount ==
  (EapiRan /\ NoDeviceError) =>
    Len(last.reqs) = IF LastCommands = <<>> THEN 0 ELSE 1 + FormatChanges(LastCommands)

C5_Witness ==
  /\ EapiRan /\ NoDeviceError
  /\ LastCommands = <<ShowVersion, ShowInterfacesJson, ShowVersion>>
  /\ Len(last.reqs) = 3

\* C6: without a device error, the RPC adapter's run_commands returns, for a
\* list of commands, one result per command, the i-th being the device's
\* response to the i-th command (trimmed or not), however many requests the
\* commands were split into.
C6_OrderPreserved ==
  (EapiRan /\ NoDeviceError /\ last.arg.kind = "list") =>
    /\ last.status = "ok"
    /\ Len(last.value.list) = Len(LastCommands)
    /\ \A i \in 1..Len(LastCommands) :
         strip(last.value.list[i].body) = strip(DeviceResponse(LastCommands[i]).body)

C6_Witness ==
  /\ EapiRan /\ NoDeviceError
  /\ LastCommands = <<ShowInterfacesJson, ShowVersion, ShowHostname>>
  /\ Len(last.reqs) = 2
  /\ Len(last.value.list) = 3

\* C7: in the result of the RPC adapter's run_commands, the result at a
\* position is the unwrapped, trimmed output exactly when the command there is
\* a text command, and the device's structured response unmodified when it is
\* a '| json' command, for a list of commands and for a single command.
C7_TextTrimmedJsonUntouched ==
  (EapiRan /\ NoDeviceError) =>
    /\ last.status = "ok"
    /\ Len(last.value.list) = Len(LastCommands)
    /\ \A i \in 1..Len(LastCommands) :
         last.value.list[i] =
           IF is_text(LastCommands[i])
           THEN [kind |-> "str", body |-> strip(DeviceResponse(LastCommands[i]).body)]
           ELSE DeviceResponse(LastCommands[i])

\* The request of the last call that carried the first rejected command.
FirstRejected ==
  CHOOSE n \in 1..Len(last.reqs) :
    /\ last.faults.rej \cap Elements(last.reqs[n].cmds) # {}
    /\ \A m \in 1..n - 1 : last.faults.rej \cap Elements(last.reqs[m].cmds) = {}

\* C8: when the response to a request of the RPC adapter's run_commands
\* carries an error, run_commands fails at that request with the device error,
\* issues no further request and returns none of the results collected before.
C8_FailsAtFirstError ==
  (EapiRan /\ last.faults.http = 0 /\ last.faults.rej \cap Elements(LastCommands) # {}) =>
    /\ last.status = "fail"
    /\ last.err = "fail_json: device error"
    /\ last.value = NoValue
    /\ last.faults.rej \cap Elements(last.reqs[Len(last.reqs)].cmds) # {}
    /\ FirstRejected = Len(last.reqs)

C8_Witness ==
  /\ EapiRan
  /\ LastCommands = <<ShowVersion, ShowInterfacesJson, ShowVersion>>
  /\ last.faults = [rej |-> {ShowInterfacesJson}, http |-> 0]
  /\ Len(last.reqs) = 2
  /\ last.status = "fail"


\* C18: every request of the RPC adapter's run_commands carries, after
\* 'enable', only commands of one format, which is the request's format tag
\* ('json' for commands ending in '| json', 'text' otherwise), and two
\* consecutive requests never have the same tag.
C18_UniformMaximalBatches ==
  EapiRan =>
    \A n \in 1..Len(last.reqs) :
      /\ Len(last.reqs[n].cmds) >= 2
      /\ \A i \in 2..Len(last.reqs[n].cmds) :
           is_json(last.reqs[n].cmds[i]) <=> (last.reqs[n].format = "json")
      /\ last.reqs[n].format \in {"json", "text"}
      /\ n < Len(last.reqs) => last.reqs[n].format # last.reqs[n + 1].format

C18_Witness ==
  /\ EapiRan
  /\ LastCommands = <<ShowVersion, ShowHostname, ShowInterfacesJson>>
  /\ Len(last.reqs) = 2
  /\ last.reqs[1] = [cmds |-> <<Enable, ShowVersion, ShowHostname>>, format |-> "text"]
  /\ last.reqs[2] = [cmds |-> <<Enable, ShowInterfacesJson>>, format |-> "json"]

\* C19, as the code has it: the RPC adapter puts the plain command 'enable'
\* first in every request, whether or not an enable credential is configured,
\* and drops the first result of every response that has results, so a
\* successful run_commands on a list returns one result per command.
C19_EnableAlwaysPrepended ==
  EapiRan =>
    /\ \A n \in 1..Len(last.reqs) : Head(last.reqs[n].cmds) = Enable
    /\ (NoDeviceError /\ last.arg.kind = "list") =>
         /\ Len(last.value.list) = Len(LastCommands)
         /\ \A i \in 1..Len(LastCommands) :
              last.value.list[i].kind = IF is_json(LastCommands[i]) THEN "json" ELSE "str"

C19_Witness ==
  /\ EapiRan /\ NoDeviceError
  /\ ~params.auth_pass /\ DEVICE_CONNECTION._enable = "enable"
  /\ LastCommands = <<ShowVersion, ShowInterfacesJson>>
  /\ Head(last.reqs[1].cmds) = Enable
  /\ last.status = "ok" /\ Len(last.value.list) = 2

\* C19, as stated: a request starts with 'enable' exactly when an enable
\* credential (auth_pass) is configured.
C19_EnableIffCredential ==
  EapiRan =>
    \A n \in 1..Len(last.reqs) : (Head(last.reqs[n].cmds) = Enable) <=> params.auth_pass

\* ---------------------------------------------------------------- load_config
\* The last call was load_config.
LoadRan == last.op = "load_config"

\* The caller is privileged: the shell's prompt ends in '#'; every eAPI
\* request starts with 'enable'.
Privileged == last.kind = "Eapi" \/ device.privileged

\* The last call could use sessions: the device has them and, on the shell
\* adapter, ANSIBLE_EOS_USE_SESSIONS does not disable them.
SessionsUsable == device.sessions /\ (last.kind = "Cli" => use_session(env))

\* A command of the last call opened a session.
SentConfigureSession ==
  \E i \in 1..Len(last.sent) : startswith(last.sent[i], ConfigureSessionPrefix)

\* The diff of a session that holds the last call's commands, against the
\* running configuration before the call.
SessionDiff ==
  DiffText([running |-> last.before,
            sess |-> [s \in {"s"} |-> [adds |-> Elements(last.arg.val),
                                       clean |-> last.replace]]],
           "s")

C2_DryRunReturnsDiff ==
  (LoadRan /\ ~last.commit /\ SessionsUsable) =>
    /\ Commit \notin Elements(last.sent)
    /\ device.running = last.before
    /\ (Privileged /\ last.faults = NoFaults /\ last.arg.val # <<>>) =>
         /\ last.status = "ok"
         /\ strip(last.value.diff) = strip(SessionDiff)

\* C3: when the device rejects one of the commands load_config applies inside
\* a session, load_config sends 'abort' for that session before it reports the
\* failure, never sends 'commit', and the running configuration keeps no
\* trace of the commands before the rejected one.
C3_AbortOnRejectedCommand ==
  (/\ LoadRan /\ SessionsUsable /\ Privileged
   /\ last.faults.http = 0
   /\ last.faults.rej \cap Elements(last.arg.val) # {}
   /\ \A c \in Elements(last.arg.val) : ~startswith(c, <<"banner">>)) =>
    /\ last.status = "fail"
    /\ SentConfigureSession
    /\ Abort \in Elements(last.sent)
    /\ Commit \notin Elements(last.sent)
    /\ device.running = last.before

C10_FallbackToConfigure ==
  (LoadRan /\ (~device.sessions \/ ~use_session(env))) =>
    /\ ~SentConfigureSession
    /\ (Privileged /\ last.faults = NoFaults /\ last.arg.val # <<>>) =>
         /\ last.status = "ok"
         /\ last.value.keys = {}
         /\ Elements(last.arg.val) \subseteq device.running

\* A command that enters configuration mode or a session is among those the
\* last call sent.
SentConfigurationCommand ==
  \E i \in 1..Len(last.sent) :
    \/ last.sent[i] \in {Configure, ConfigureTerminal}
    \/ startswith(last.sent[i], ConfigureSessionPrefix)

\* C11: when the shell is not privileged (its prompt does not end in '#'),
\* load_config and configure fail with the authorization error, having sent
\* no command that enters configuration mode or a session, and leave the
\* running configuration and the sessions as they were.
C11_UnprivilegedRefused ==
  (/\ last.op \in {"load_config", "configure"} /\ last.kind = "Cli"
   /\ ~device.privileged /\ last.faults = NoFaults) =>
    /\ last.status = "fail"
    /\ last.err = "fail_json: configuration operations require privilege escalation"
    /\ ~SentConfigurationCommand
    /\ device.running = last.before
    /\ DOMAIN device.sess = {}

\* Commands every call may send besides its own: connection set-up and probes.
Overhead == {Enable, TerminalLength, ShowClock, Prompt, ShowSessions}

\* The command carried by a payload.
Unwrap(cmd) == IF IsSendonly(cmd) THEN Tail(cmd) ELSE cmd

NotOverhead(cmd) == cmd \notin Overhead

\* The commands of the last call as the device saw them, set-up and probes
\* left out.
Traffic == SelectSeq([i \in 1..Len(last.sent) |-> Unwrap(last.sent[i])], NotOverhead)

\* What a transactional load of the last call's arguments sends in one pass,
\* and when the session is entered again for the diff.
SessionScript(reenter) ==
  <<ConfigureSession(last.value.session)>>
    \o (IF last.replace THEN <<Rollback>> ELSE <<>>)
    \o last.arg.val
    \o (IF reenter THEN <<ConfigureSession(last.value.session)>> ELSE <<>>)
    \o <<ShowDiffs, IF last.commit THEN Commit ELSE Abort>>

\* A load_config that should go through a session without trouble.
CleanSessionLoad ==
  /\ LoadRan /\ SessionsUsable /\ Privileged
  /\ last.faults = NoFaults /\ last.arg.val # <<>>

\* C14: a transactional load_config succeeds and the device sees 'configure
\* session <id>', then 'rollback clean-config' exactly when replace is set,
\* then the caller's commands in order, then 'show session-config diffs', then
\* 'commit' when commit is set and 'abort' otherwise.
C14_SessionCommandOrder ==
  CleanSessionLoad =>
    /\ last.status = "ok"
    /\ Traffic \in {SessionScript(FALSE), SessionScript(TRUE)}

\* C15: the result of a successful transactional load_config carries the
\* session identifier, and a diff entry exactly when the session's diff text
\* is not empty.
C15_DiffEntryIffNonEmpty ==
  CleanSessionLoad =>
    /\ last.status = "ok"
    /\ "session" \in last.value.keys
    /\ ("diff" \in last.value.keys) <=> (strip(SessionDiff) # <<>>)

\* What the running configuration is after a session holding the last call's
\* commands was committed (commit set) or aborted.
OwnOutcome ==
  IF last.commit
  THEN (IF last.replace THEN {} ELSE last.before) \cup Elements(last.arg.val)
  ELSE last.before

C16_ConfigureOrder ==
  (/\ last.op = "configure" /\ Privileged
   /\ last.faults = NoFaults /\ last.arg.val # <<>>) =>
    /\ last.status = "ok"
    /\ Traffic = IF last.kind = "Cli" THEN <<Configure>> \o last.arg.val \o <<End>>
                 ELSE <<ConfigureTerminal>> \o last.arg.val
    /\ device.mode = "exec"

\* ---------------------------------------------------------------- send_config
\* The payloads of cmds when multi-line mode starts at a command beginning
\* with 'banner' and ends at 'EOF'; eofRaw tells whether the terminator itself
\* goes out as a send-only payload.
RECURSIVE Payloads(_, _, _)
Payloads(cmds, multiline, eofRaw) ==
  IF cmds = <<>> THEN <<>>
  ELSE LET c == Head(cmds)
           inside == multiline \/ startswith(c, <<"banner">>)
           raw == inside /\ (c = EOF => eofRaw)
       IN <<IF raw THEN Sendonly(c) ELSE c>>
            \o Payloads(Tail(cmds), inside /\ c # EOF, eofRaw)

IsPrefix(s, t) == Len(s) <= Len(t) /\ s = SubSeq(t, 1, Len(s))

\* What send_config itself sent during the last call.
SentPayloads == SelectSeq(last.sent, NotOverhead)

\* C17: send_config sends every line from a 'banner' command up to the
\* terminator 'EOF' as a send-only payload, and every command outside such a
\* block, those after the terminator included, as an ordinary command.
C17_MultilineEndsAtEOF ==
  (last.op = "send_config" /\ last.kind = "Cli") =>
    \/ IsPrefix(SentPayloads, Payloads(last.arg.val, FALSE, TRUE))
    \/ IsPrefix(SentPayloads, Payloads(last.arg.val, FALSE, FALSE))

\* ---------------------------------------------------------------- connection
\* C12: once a process has a connection, every later call works on that same
\* adapter, whatever transport the caller's parameters name: its kind and its
\* enable setting never change and the connection is not set up again (no
\* second 'terminal length 0').
C12_OneConnection ==
  [][(DEVICE_CONNECTION.kind # "None" /\ DEVICE_CONNECTION'.kind # "None" /\ last' # last) =>
       /\ DEVICE_CONNECTION'.kind = DEVICE_CONNECTION.kind
       /\ DEVICE_CONNECTION'._enable = DEVICE_CONNECTION._enable
       /\ TerminalLength \notin Elements(last'.sent)]_vars

C12_Witness ==
  /\ last.op = "get_connection" /\ last.arg.val = <<"eapi">>
  /\ last.status = "ok"
  /\ DEVICE_CONNECTION.kind = "Cli"
  /\ TerminalLength \notin Elements(last.sent)

\* C13: after supports_sessions has answered once, the next supports_sessions
\* call on the same adapter gives the same answer without sending 'show
\* configuration sessions' again.
C13_ProbedOnce ==
  [][(/\ last.op = "supports_sessions" /\ last.status = "ok" /\ last.faults = NoFaults
      /\ last'.op = "supports_sessions" /\ last' # last /\ faults = NoFaults) =>
       /\ ShowSessions \notin Elements(last'.sent)
       /\ last'.value = last.value]_vars

\* ---------------------------------------------------------------- get_config
\* C9: get_config returns the text of the running configuration for the flag
\* set, and a connection fetches that text from the device at most once per
\* flag set: later calls with the same flags are answered from the cache.
C9_ConfigFetchedOnce ==
  (last.op = "get_config" /\ last.faults = NoFaults) =>
    /\ last.status = "ok"
    /\ last.value.text = strip(ConfigText(device))
    /\ \A k \in ConfigKeys : fetches[k] <= 1

====
